---- MODULE Spec2Model ----
(***************************************************************************)
(* Model of src/src/app.js: the Express handlers POST /jobs/:job_id/pay    *)
(* and POST /balances/deposit/:userId over the Profile / Contract / Job    *)
(* store.  Every `await` of a handler is a point where another request     *)
(* may run, so every store statement of a handler is one action.           *)
(*                                                                         *)
(* The third argument of Profile.update / Job.update (and the second of    *)
(* Profile.findOne) is where the handlers pass {transaction: t}; Sequelize *)
(* takes the transaction from the options argument, so each statement is   *)
(* committed on its own as soon as it is executed.                         *)
(***************************************************************************)
EXTENDS Integers, FiniteSets, Sequences, TLC

(* ---------------------------------------------------------------- bounds *)

\* number of requests the model runs (each at most once, in any interleaving)
NReq == 2

\* `new Date()` takes the values 0..MaxTime
MaxTime == 1

Reqs == 1..NReq

(* ------------------------------------------------------ the store's rows *)

\* ids of the Profile rows
ProfileIds == {1, 2}

\* an id that no Profile row has
NoProfile == 9

\* ids of the Job rows
JobIds == {1, 2, 3, 4}

\* an id that no Job row has
NoJob == 9

\* Contract rows: app.js never writes a Contract
Contract ==
    [c \in {1, 2, 3} |->
        CASE c = 1 -> [ClientId |-> 1, ContractorId |-> 2, status |-> "in_progress"]
          [] c = 2 -> [ClientId |-> 2, ContractorId |-> 1, status |-> "in_progress"]
          [] c = 3 -> [ClientId |-> 1, ContractorId |-> 2, status |-> "terminated"]]

\* the columns of a Job row that app.js never writes
JobRow ==
    [j \in JobIds |->
        CASE j = 1 -> [ContractId |-> 1, price |-> 2]
          [] j = 2 -> [ContractId |-> 1, price |-> 2]
          [] j = 3 -> [ContractId |-> 2, price |-> 1]
          [] j = 4 -> [ContractId |-> 3, price |-> 1]]

\* ids of the Contract rows
ContractIds == DOMAIN Contract

\* an id that no Contract row has
NoContract == 9

\* Profile.profession
Profession == [p \in ProfileIds |-> IF p = 1 THEN "Musician" ELSE "Programmer"]

\* Profile.firstName and Profile.lastName
FirstName == [p \in ProfileIds |-> IF p = 1 THEN "Harry" ELSE "Linus"]

LastName == [p \in ProfileIds |-> IF p = 1 THEN "Potter" ELSE "Torvalds"]

\* paymentDate of a Job that was never paid (SQL NULL)
NoDate == -1

\* the balances of the Profile rows when the server starts
InitBalance == [p \in ProfileIds |-> IF p = 1 THEN 3 ELSE 1]

\* values of req.body.deposit
Amounts == {-1, 0, 1, 2}

\* whether a store statement throws
Faults == BOOLEAN

(* ------------------------------------------------------------- the state *)

VARIABLES
    balance,    \* Profile.balance, by Profile id
    jobs,       \* Job.paid (FALSE is SQL NULL) and Job.paymentDate, by Job id
    now,        \* the latest value `new Date()` has returned
    req,        \* the requests: their inputs, position and local variables;
                \* sumBefore is the committed balance of the client plus the
                \* contractor's when the request's first write is made
    hist,       \* per request: the response and the writes it has applied
    res         \* the latest response of a GET route, with its request

vars == <<balance, jobs, now, req, hist, res>>

IdleReq ==
    [pc |-> "idle", kind |-> "none", caller |-> 0, arg |-> 0, deposit |-> 0,
     profileBalance |-> 0, contractorBalance |-> 0, clientBalance |-> 0,
     sumBefore |-> 0]

NoHist == [status |-> 0, applied |-> {}]

\* no GET route has answered yet
NoRes == [op |-> "none"]

Init ==
    /\ balance = InitBalance
    /\ jobs = [j \in JobIds |-> [paid |-> FALSE, paymentDate |-> NoDate]]
    /\ now = 0
    /\ req = [r \in Reqs |-> IdleReq]
    /\ hist = [r \in Reqs |-> NoHist]
    /\ res = NoRes

(* --------------------------------------------------------------- helpers *)

\* res.status(code).end(): the handler returns
Respond(r, code, h) ==
    /\ req' = [req EXCEPT ![r] = [IdleReq EXCEPT !.pc = "done", !.kind = req[r].kind,
                                   !.caller = req[r].caller, !.arg = req[r].arg,
                                   !.deposit = req[r].deposit]]
    /\ hist' = [hist EXCEPT ![r] = [h EXCEPT !.status = code]]

Goto(r, label) == [req EXCEPT ![r].pc = label]

RECURSIVE SumPrice(_)
SumPrice(S) ==
    IF S = {} THEN 0
    ELSE LET j == CHOOSE x \in S : TRUE IN JobRow[j].price + SumPrice(S \ {j})

(* -------------------------------------------- the queries of the handlers *)

\* getProfile (middleware/getProfile.js): the Profile row of the caller
ProfileExists(id) == id \in ProfileIds

\* the query without `paid: null`
JobFound_IgnorePaid(callerId, job_id) ==
    /\ job_id \in JobIds
    /\ Contract[JobRow[job_id].ContractId].ClientId = callerId
    /\ Contract[JobRow[job_id].ContractId].status = "in_progress"

\* Job.findOne({where: {id: job_id, paid: null}, include: [{model: Contract,
\* where: {ClientId: req.profile.id, status: "in_progress"}}]}) finds a row
JobFound(callerId, job_id) ==
    /\ job_id \in JobIds
    /\ jobs[job_id].paid = FALSE
    /\ Contract[JobRow[job_id].ContractId].ClientId = callerId
    /\ Contract[JobRow[job_id].ContractId].status = "in_progress"

\* job.Contract.ContractorId of the Job the query found
ContractorOf(job_id) == Contract[JobRow[job_id].ContractId].ContractorId

\* Job.findAll({where: {paid: null}, include: [{model: Contract,
\* where: {ClientId: userId, status: "in_progress"}}]})
UnpaidJobsOfClient(userId) ==
    {j \in JobIds : /\ jobs[j].paid = FALSE
                    /\ Contract[JobRow[j].ContractId].ClientId = userId
                    /\ Contract[JobRow[j].ContractId].status = "in_progress"}

\* jobs.reduce((acc, job) => acc + job.price, 0)
totalJobsDebt(userId) == SumPrice(UnpaidJobsOfClient(userId))

\* the limit check with >= for >
OverDepositLimit_AtLimit(deposit, userId) == 4 * deposit >= totalJobsDebt(userId)

\* deposit > totalJobsDebt * 0.25, on integers
OverDepositLimit(deposit, userId) == 4 * deposit > totalJobsDebt(userId)

\* job.price > req.profile.balance
InsufficientFunds(price, profileBalance) == price > profileBalance

\* req.profile.balance - job.price
DebitedBalance(profileBalance, price) == profileBalance - price

\* the credit with the sign of the debit
CreditedBalance_Minus(contractorBalance, price) == contractorBalance - price

\* job.Contract.Contractor.balance + job.price
CreditedBalance(contractorBalance, price) == contractorBalance + price

\* client.balance + deposit
DepositedBalance(clientBalance, deposit) == clientBalance + deposit

\* Job.update({paid: true, paymentDate: new Date()}, {where: {id: job_id}})
PaidJobs(job_id, date) ==
    [jobs EXCEPT ![job_id] = [paid |-> TRUE, paymentDate |-> date]]

(* ----------------------------------------------------------- the requests *)

\* a request of a caller who has a Profile arrives (the middleware ends every
\* other request before its handler runs) and getProfile loads req.profile;
\* the deposit handler never reads req.profile, so only a payment keeps its
\* balance
GetProfile(r, kind, caller, arg, deposit) ==
    /\ req[r].pc = "idle"
    /\ ProfileExists(caller)
    /\ req' = [req EXCEPT ![r] =
           [IdleReq EXCEPT !.pc = IF kind = "pay" THEN "payFind" ELSE "depFind",
                           !.kind = kind, !.caller = caller, !.arg = arg,
                           !.deposit = deposit,
                           !.profileBalance =
                               IF kind = "pay" THEN balance[caller] ELSE 0]]
    /\ UNCHANGED <<balance, jobs, now, hist, res>>

\* POST /jobs/:job_id/pay, lines 75-97: the Job query and the two checks
PayFindJob(r) ==
    /\ req[r].pc = "payFind"
    /\ IF ~JobFound(req[r].caller, req[r].arg)
       THEN Respond(r, 404, hist[r])
       ELSE IF InsufficientFunds(JobRow[req[r].arg].price, req[r].profileBalance)
       THEN Respond(r, 400, hist[r])
       ELSE /\ req' = [req EXCEPT ![r].pc = "debit",
                                  ![r].contractorBalance = balance[ContractorOf(req[r].arg)]]
            /\ hist' = hist
    /\ UNCHANGED <<balance, jobs, now, res>>

\* lines 101-114: the transactions begin, the client's balance is written
PayDebit(r, fault) ==
    /\ req[r].pc = "debit"
    /\ IF fault
       THEN /\ Respond(r, 500, hist[r])
            /\ UNCHANGED balance
       ELSE /\ balance' = [balance EXCEPT ![req[r].caller] =
                    DebitedBalance(req[r].profileBalance, JobRow[req[r].arg].price)]
            /\ req' = [req EXCEPT ![r].pc = "credit",
                                  ![r].sumBefore = balance[req[r].caller]
                                      + balance[ContractorOf(req[r].arg)]]
            /\ hist' = [hist EXCEPT ![r].applied = @ \cup {"debit"}]
    /\ UNCHANGED <<jobs, now, res>>

\* the contractor's balance written inside the transaction: the write waits
\* while another payment that has written this row has not committed
PayCredit_RowLocked(r, fault) ==
    /\ req[r].pc = "credit"
    /\ \A q \in Reqs \ {r} :
          ~ /\ req[q].kind = "pay"
            /\ req[q].pc \in {"credit", "markPaid"}
            /\ req[q].caller = ContractorOf(req[r].arg)
    /\ IF fault
       THEN /\ Respond(r, 500, hist[r])
            /\ UNCHANGED balance
       ELSE /\ balance' = [balance EXCEPT ![ContractorOf(req[r].arg)] =
                    CreditedBalance(req[r].contractorBalance, JobRow[req[r].arg].price)]
            /\ req' = Goto(r, "markPaid")
            /\ hist' = [hist EXCEPT ![r].applied = @ \cup {"credit"}]
    /\ UNCHANGED <<jobs, now, res>>

\* lines 115-125: the contractor's balance is written
PayCredit(r, fault) ==
    /\ req[r].pc = "credit"
    /\ IF fault
       THEN /\ Respond(r, 500, hist[r])
            /\ UNCHANGED balance
       ELSE /\ balance' = [balance EXCEPT ![ContractorOf(req[r].arg)] =
                    CreditedBalance(req[r].contractorBalance, JobRow[req[r].arg].price)]
            /\ req' = Goto(r, "markPaid")
            /\ hist' = [hist EXCEPT ![r].applied = @ \cup {"credit"}]
    /\ UNCHANGED <<jobs, now, res>>

\* lines 126-144: the Job is written at the time `date`, the transactions
\* commit, the response
PayMarkPaid(r, fault, date) ==
    /\ req[r].pc = "markPaid"
    /\ IF fault
       THEN /\ Respond(r, 500, hist[r])
            /\ UNCHANGED <<jobs, now>>
       ELSE /\ date >= now
            /\ jobs' = PaidJobs(req[r].arg, date)
            /\ now' = date
            /\ Respond(r, 200, [hist[r] EXCEPT !.applied = @ \cup {"paid"}])
    /\ UNCHANGED <<balance, res>>

\* POST /balances/deposit/:userId, lines 154-170: the debt and the limit
DepositFindJobs(r) ==
    /\ req[r].pc = "depFind"
    /\ IF OverDepositLimit(req[r].deposit, req[r].arg)
       THEN Respond(r, 400, hist[r])
       ELSE /\ req' = Goto(r, "depClient")
            /\ hist' = hist
    /\ UNCHANGED <<balance, jobs, now, res>>

\* the target Profile read with a balance of 0 standing for a missing row
\* (client?.balance ?? 0)
DepositFindClient_NullAsZero(r, fault) ==
    /\ req[r].pc = "depClient"
    /\ IF fault
       THEN Respond(r, 500, hist[r])
       ELSE /\ req' = [req EXCEPT ![r].pc = "depUpdate",
                                  ![r].clientBalance =
                                      IF ProfileExists(req[r].arg)
                                      THEN balance[req[r].arg] ELSE 0]
            /\ hist' = hist
    /\ UNCHANGED <<balance, jobs, now, res>>

\* lines 172-180: the transaction begins, the target Profile is read;
\* client.balance of a null client throws
DepositFindClient(r, fault) ==
    /\ req[r].pc = "depClient"
    /\ IF fault \/ ~ProfileExists(req[r].arg)
       THEN Respond(r, 500, hist[r])
       ELSE /\ req' = [req EXCEPT ![r].pc = "depUpdate",
                                  ![r].clientBalance = balance[req[r].arg]]
            /\ hist' = hist
    /\ UNCHANGED <<balance, jobs, now, res>>

\* the balance written where id is req.profile.id in place of userId
DepositUpdate_ToCaller(r, fault) ==
    /\ req[r].pc = "depUpdate"
    /\ IF fault
       THEN /\ Respond(r, 500, hist[r])
            /\ UNCHANGED balance
       ELSE /\ balance' = [balance EXCEPT ![req[r].caller] =
                    DepositedBalance(req[r].clientBalance, req[r].deposit)]
            /\ Respond(r, 200, [hist[r] EXCEPT !.applied = @ \cup {"deposit"}])
    /\ UNCHANGED <<jobs, now, res>>

\* lines 181-196: the target's balance is written, the commit, the response
DepositUpdate(r, fault) ==
    /\ req[r].pc = "depUpdate"
    /\ IF fault
       THEN /\ Respond(r, 500, hist[r])
            /\ UNCHANGED balance
       ELSE /\ balance' = [balance EXCEPT ![req[r].arg] =
                    DepositedBalance(req[r].clientBalance, req[r].deposit)]
            /\ Respond(r, 200, [hist[r] EXCEPT !.applied = @ \cup {"deposit"}])
    /\ UNCHANGED <<jobs, now, res>>

(* ------------------------------------------------------ the specifications *)

\* requests start in the order of their numbers
InOrder(r) == \A q \in Reqs : q < r => req[q].pc # "idle"

\* a POST /jobs/:job_id/pay arrives
ArrivePay(r) ==
    /\ InOrder(r)
    /\ \E caller \in ProfileIds, job_id \in JobIds \cup {NoJob} :
          GetProfile(r, "pay", caller, job_id, 0)

\* a POST /balances/deposit/:userId arrives
ArriveDeposit(r) ==
    /\ InOrder(r)
    /\ \E caller \in ProfileIds, userId \in ProfileIds \cup {NoProfile},
          deposit \in Amounts :
          GetProfile(r, "deposit", caller, userId, deposit)

Arrive(r) == ArrivePay(r) \/ ArriveDeposit(r)

PayStep(r, F) ==
    \/ PayFindJob(r)
    \/ \E fault \in F : PayDebit(r, fault)
    \/ \E fault \in F : PayCredit(r, fault)
    \/ \E fault \in F, date \in 0..MaxTime : PayMarkPaid(r, fault, date)

DepositStep(r, F) ==
    \/ DepositFindJobs(r)
    \/ \E fault \in F : DepositFindClient(r, fault)
    \/ \E fault \in F : DepositUpdate(r, fault)

Step(r, F) == PayStep(r, F) \/ DepositStep(r, F)

\* any interleaving of the requests, over a store whose statements may throw
Next == \E r \in Reqs : Arrive(r) \/ Step(r, Faults)

Spec == Init /\ [][Next]_vars

\* no request is in flight
Quiet == \A r \in Reqs : req[r].pc \in {"idle", "done"}

\* one request at a time, over a store that throws nothing
NextSeq == \E r \in Reqs : (Quiet /\ Arrive(r)) \/ Step(r, {FALSE})

SpecSeq == Init /\ [][NextSeq]_vars

\* Jobs of Contracts 1 and 2, which have Profiles 1 and 2 in opposite roles
OppositeJobs == {1, 3}

\* requests of SpecFair: payments of the OppositeJobs by either Profile, and
\* deposits of 1 to Profile 1 or to no Profile
ArriveOverlapping(r) ==
    /\ InOrder(r)
    /\ \/ \E caller \in ProfileIds, job_id \in OppositeJobs :
             GetProfile(r, "pay", caller, job_id, 0)
       \/ \E caller \in ProfileIds, userId \in {1, NoProfile}, deposit \in {1} :
             GetProfile(r, "deposit", caller, userId, deposit)

NextFair == \E r \in Reqs : ArriveOverlapping(r) \/ Step(r, Faults)

\* the event loop resumes every handler whose awaited statement has settled
SpecFair ==
    /\ Init
    /\ [][NextFair]_vars
    /\ \A r \in Reqs : WF_vars(Step(r, Faults))

(* ---------------------------------------------------------- the GET routes *)

\* a Profile that is a party of no Contract; it calls the GET routes only, so
\* that no request reads or writes its balance
Visitor == 3

\* getProfile lets the request of this profile_id through
Authenticated(caller) == ProfileExists(caller) \/ caller = Visitor

\* the callers of the GET routes
Readers == ProfileIds \cup {Visitor}

\* Contract.findOne without the [Op.or] of the two parties
ContractFound_AnyCaller(callerId, id) == id \in ContractIds

\* Contract.findOne({where: {id, [Op.or]: [{ContractorId: req.profile.id},
\* {ClientId: req.profile.id}]}}) finds a row
ContractFound(callerId, id) ==
    /\ id \in ContractIds
    /\ \/ Contract[id].ContractorId = callerId
       \/ Contract[id].ClientId = callerId

\* GET /contracts/:id
GetContract(caller, id) ==
    /\ Authenticated(caller)
    /\ res' = IF ContractFound(caller, id)
              THEN [op |-> "contract", caller |-> caller, id |-> id,
                    status |-> 200, body |-> <<id, Contract[id]>>]
              ELSE [op |-> "contract", caller |-> caller, id |-> id,
                    status |-> 404, body |-> <<>>]
    /\ UNCHANGED <<balance, jobs, now, req, hist>>

\* Job.findAll of GET /jobs/unpaid without the status: "in_progress" of the
\* included Contract
UnpaidJobs_AnyStatus(callerId) ==
    {j \in JobIds :
        /\ jobs[j].paid = FALSE
        /\ \/ Contract[JobRow[j].ContractId].ContractorId = callerId
           \/ Contract[JobRow[j].ContractId].ClientId = callerId}

\* Job.findAll({where: {paid: null}, include: [{model: Contract, where:
\* {[Op.or]: [{ContractorId: req.profile.id}, {ClientId: req.profile.id}],
\* status: "in_progress"}}]}): the ids of the rows
UnpaidJobs(callerId) ==
    {j \in JobIds :
        /\ jobs[j].paid = FALSE
        /\ \/ Contract[JobRow[j].ContractId].ContractorId = callerId
           \/ Contract[JobRow[j].ContractId].ClientId = callerId
        /\ Contract[JobRow[j].ContractId].status = "in_progress"}

\* GET /jobs/unpaid
GetUnpaidJobs(caller) ==
    /\ Authenticated(caller)
    /\ res' = [op |-> "unpaid", caller |-> caller, status |-> 200,
               body |-> UnpaidJobs(caller)]
    /\ UNCHANGED <<balance, jobs, now, req, hist>>

\* the where of the two admin routes with paymentDate >= start in place of
\* [Op.between]
PaidBetween_From(start, end) ==
    {j \in JobIds : /\ jobs[j].paid = TRUE
                    /\ start <= jobs[j].paymentDate}

\* where: {paid: true, paymentDate: {[Op.between]: [start, end]}}
PaidBetween(start, end) ==
    {j \in JobIds : /\ jobs[j].paid = TRUE
                    /\ start <= jobs[j].paymentDate
                    /\ jobs[j].paymentDate <= end}

\* Contract.Contractor.profession of a Job
ProfessionOf(j) == Profession[Contract[JobRow[j].ContractId].ContractorId]

\* Contract.Client.id of a Job
ClientOf(j) == Contract[JobRow[j].ContractId].ClientId

\* group: ['Contract.Contractor.profession'] with sum(price) and the map of
\* lines 236-241
ProfessionGroups(start, end) ==
    {[profession |-> f,
      jobs_paid_sum |-> SumPrice({j \in PaidBetween(start, end) : ProfessionOf(j) = f})] :
        f \in {ProfessionOf(j) : j \in PaidBetween(start, end)}}

\* group: ['Contract.Client.id'] with sum(price) and the map of lines 284-290
ClientGroups(start, end) ==
    {[id |-> c,
      fullName |-> <<FirstName[c], " ", LastName[c]>>,
      paid |-> SumPrice({j \in PaidBetween(start, end) : ClientOf(j) = c})] :
        c \in {ClientOf(j) : j \in PaidBetween(start, end)}}

\* order: [['total_amount', 'DESC']]: the rows of G in an order of descending
\* total_amount; SQL leaves the order of rows with the same total open
Descending(G, total_amount) ==
    {s \in [1..Cardinality(G) -> G] :
        \A i, k \in 1..Cardinality(G) :
            i < k => s[i] # s[k] /\ total_amount[s[i]] >= total_amount[s[k]]}

\* the `limit` of a query without one (undefined, or the empty string)
NoLimit == -1

\* the number of rows of BestClients when the query has no `limit`
DefaultLimit == 2

\* limit || 2 with limit a number: 0 is falsy
EffectiveLimit_Falsy(limit) ==
    IF limit = NoLimit \/ limit = 0 THEN DefaultLimit ELSE limit

\* limit: limit || 2, where limit is a string of the query: "0" is truthy
EffectiveLimit(limit) == IF limit = NoLimit THEN DefaultLimit ELSE limit

\* LIMIT n
Limited(s, n) == SubSeq(s, 1, IF n < Len(s) THEN n ELSE Len(s))

\* GET /admin/best-profession?start=&end=
GetBestProfession(start, end) ==
    /\ \E s \in Descending(ProfessionGroups(start, end),
                            [g \in ProfessionGroups(start, end) |-> g.jobs_paid_sum]) :
          res' = [op |-> "profession", start |-> start, end |-> end,
                  status |-> 200, body |-> s]
    /\ UNCHANGED <<balance, jobs, now, req, hist>>

\* GET /admin/best-clients?start=&end=&limit=
GetBestClients(start, end, limit) ==
    /\ \E s \in Descending(ClientGroups(start, end),
                            [g \in ClientGroups(start, end) |-> g.paid]) :
          res' = [op |-> "clients", start |-> start, end |-> end, limit |-> limit,
                  status |-> 200, body |-> Limited(s, EffectiveLimit(limit))]
    /\ UNCHANGED <<balance, jobs, now, req, hist>>

\* values of req.query.limit
Limits == {NoLimit, 0, 1, 2, 3}

\* no GET route has answered yet
Unanswered == res = NoRes

\* a GET route answers; a behaviour follows one GET request, made at any moment
Read ==
    \/ \E caller \in Readers, id \in ContractIds \cup {NoContract} :
          Unanswered /\ GetContract(caller, id)
    \/ \E caller \in Readers :
          Unanswered /\ GetUnpaidJobs(caller)
    \/ \E start, end \in 0..MaxTime :
          Unanswered /\ GetBestProfession(start, end)
    \/ \E start, end \in 0..MaxTime, limit \in Limits :
          Unanswered /\ GetBestClients(start, end, limit)

\* the store when the GET routes are called: Job 4 may have been paid, at
\* time 0, before its Contract was terminated
InitRead ==
    /\ balance = InitBalance
    /\ \E paid4 \in BOOLEAN :
          jobs = [j \in JobIds |->
                    IF j = 4 /\ paid4 THEN [paid |-> TRUE, paymentDate |-> 0]
                    ELSE [paid |-> FALSE, paymentDate |-> NoDate]]
    /\ now = 0
    /\ req = [r \in Reqs |-> IdleReq]
    /\ hist = [r \in Reqs |-> NoHist]
    /\ res = NoRes

\* payments one at a time, and the GET routes at any moment
NextRead == Read \/ \E r \in Reqs : (Quiet /\ ArrivePay(r)) \/ PayStep(r, {FALSE})

SpecRead == InitRead /\ [][NextRead]_vars

(* ------------------------------------------------------------- the claims *)

\* the requests that are payments of Job j
PaymentsOf(j) == {r \in Reqs : req[r].kind = "pay" /\ req[r].arg = j}

\* request r takes the step that leaves label `from`
Leaves(r, from) == req[r].pc = from /\ req'[r].pc # from

\* the effect a successful request r is meant to have on the balance of p
Delta(r, p) ==
    IF req[r].kind = "deposit"
    THEN (IF req[r].arg = p THEN req[r].deposit ELSE 0)
    ELSE IF req[r].arg \notin JobIds THEN 0
    ELSE (IF p = req[r].caller THEN 0 - JobRow[req[r].arg].price ELSE 0)
         + (IF p = ContractorOf(req[r].arg) THEN JobRow[req[r].arg].price ELSE 0)

\* request r has written the balance of p
Wrote(r, p) ==
    \/ "deposit" \in hist[r].applied /\ req[r].arg = p
    \/ "debit" \in hist[r].applied /\ req[r].caller = p
    \/ "credit" \in hist[r].applied /\ ContractorOf(req[r].arg) = p

\* C1: of the payments of one Job at most one is answered 200, and the
\* client is debited and the contractor credited at most once for it
C1_OnePaymentPerJob ==
    \A j \in JobIds :
        /\ Cardinality({r \in PaymentsOf(j) : hist[r].status = 200}) <= 1
        /\ Cardinality({r \in PaymentsOf(j) : "debit" \in hist[r].applied}) <= 1
        /\ Cardinality({r \in PaymentsOf(j) : "credit" \in hist[r].applied}) <= 1

\* C2: when a payment has made its two balance writes, the committed balances
\* of its client and its contractor add up to what they added up to
\* immediately before its first write
C2_MoneyConserved ==
    [][\A r \in Reqs :
          Leaves(r, "credit") /\ req'[r].pc = "markPaid" =>
              balance'[req[r].caller] + balance'[ContractorOf(req[r].arg)]
                  = req[r].sumBefore]_vars

\* C3: a payment answered 500 has applied none of its three writes
C3_AllOrNothing ==
    \A r \in Reqs :
        req[r].kind = "pay" /\ hist[r].status = 500 => hist[r].applied = {}

\* C4: no Profile's balance is ever negative
C4_BalanceNonNegative == \A p \in ProfileIds : balance[p] >= 0

\* C5: when a Deposit and another Deposit or PayJob that write the same
\* Profile's balance have both been answered 200, and no third request has
\* written it, the balance is its initial value plus both deltas
C5_NoLostUpdate ==
    \A p \in ProfileIds : \A r1, r2 \in Reqs :
        ( /\ r1 # r2
          /\ req[r1].kind = "deposit"
          /\ hist[r1].status = 200 /\ hist[r2].status = 200
          /\ Wrote(r1, p) /\ Wrote(r2, p)
          /\ \A r3 \in Reqs \ {r1, r2} : ~Wrote(r3, p) )
        => balance[p] = InitBalance[p] + Delta(r1, p) + Delta(r2, p)

\* the debt of client `userId`: the prices of its unpaid Jobs on in_progress
\* Contracts, added up
Debt(userId) ==
    LET owed(j) == IF /\ ~jobs[j].paid
                      /\ Contract[JobRow[j].ContractId].ClientId = userId
                      /\ Contract[JobRow[j].ContractId].status = "in_progress"
                   THEN JobRow[j].price ELSE 0
    IN owed(1) + owed(2) + owed(3) + owed(4)

\* C6: run alone, a Deposit is answered 400 exactly when amount > Debt / 4,
\* and then no balance changes; an amount up to the limit (the limit itself
\* included) into an existing Profile is answered 200 and raises that
\* Profile's balance, and no other, by the amount
C6_DepositLimit ==
    [][\A r \in Reqs :
          req[r].kind = "deposit" /\ req[r].pc # "done" /\ req'[r].pc = "done" =>
              LET over == 4 * req[r].deposit > Debt(req[r].arg) IN
              /\ hist'[r].status = 400 <=> over
              /\ over => balance' = balance
              /\ ~over /\ req[r].arg \in ProfileIds =>
                    /\ hist'[r].status = 200
                    /\ balance' = [balance EXCEPT ![req[r].arg] = @ + req[r].deposit]]_vars

\* C6 witness: a Deposit of exactly the limit (1 = 4 / 4) into Profile 1 was
\* answered 200 and the balance is 1 higher
C6_Witness ==
    \E r \in Reqs :
        /\ req[r].kind = "deposit" /\ req[r].arg = 1 /\ req[r].deposit = 1
        /\ hist[r].status = 200
        /\ Debt(1) = 4
        /\ balance[1] = InitBalance[1] + 1

\* the Job does not exist, is paid, is on a Contract that is not in_progress,
\* or the caller is not the client of its Contract
NotPayable(callerId, job_id) ==
    \/ job_id \notin JobIds
    \/ jobs[job_id].paid
    \/ Contract[JobRow[job_id].ContractId].status # "in_progress"
    \/ Contract[JobRow[job_id].ContractId].ClientId # callerId

\* C7: a PayJob whose Job query runs when the Job is not payable by the
\* caller is answered 404 there and then, and writes nothing
C7_NotFound ==
    [][\A r \in Reqs :
          Leaves(r, "payFind") /\ NotPayable(req[r].caller, req[r].arg) =>
              /\ req'[r].pc = "done"
              /\ hist'[r].status = 404
              /\ hist'[r].applied = {}
              /\ balance' = balance
              /\ jobs' = jobs]_vars

\* C7 witness: the client's PayJob of a Job that another PayJob has paid was
\* answered 404
C7_Witness ==
    \E r \in Reqs : \E q \in Reqs \ {r} :
        /\ req[q].kind = "pay" /\ hist[q].status = 200
        /\ req[r].kind = "pay" /\ hist[r].status = 404
        /\ req[r].arg = req[q].arg /\ req[r].caller = req[q].caller
        /\ jobs[req[r].arg].paid

\* C8: a payment is applied only when the client's committed balance covers
\* the price
C8_FundsAtPayment ==
    [][\A r \in Reqs :
          Leaves(r, "debit") /\ req'[r].pc = "credit" =>
              balance[req[r].caller] >= JobRow[req[r].arg].price]_vars

\* C9: run alone, a PayJob of a payable Job of price p by a client whose
\* balance b covers p goes on to the writes and ends answered 200 with the
\* client at b - p, the contractor at c + p, the Job paid and dated; a PayJob
\* of a paid Job is answered 404 and changes nothing
C9_SoloPayment ==
    [][\A r \in Reqs :
          LET j == req[r].arg
              p == JobRow[j].price
          IN
          /\ Leaves(r, "payFind") =>
                IF j \in JobIds /\ jobs[j].paid
                THEN hist'[r].status = 404 /\ balance' = balance /\ jobs' = jobs
                ELSE ~NotPayable(req[r].caller, j) /\ balance[req[r].caller] >= p =>
                        /\ req'[r].pc = "debit"
                        /\ req[r].profileBalance = balance[req[r].caller]
                        /\ req'[r].contractorBalance = balance[ContractorOf(j)]
          /\ req[r].pc \in {"debit", "credit"} => req'[r].pc # "done"
          /\ Leaves(r, "markPaid") =>
                /\ hist'[r].status = 200
                /\ balance'[req[r].caller] = req[r].profileBalance - p
                /\ balance'[ContractorOf(j)] = req[r].contractorBalance + p
                /\ jobs'[j].paid
                /\ jobs'[j].paymentDate # NoDate]_vars

\* C9 witness: the client with 3 has paid Job 1 of price 2 to the contractor
\* with 1, and its second PayJob of Job 1 was answered 404
C9_Witness ==
    \E r, q \in Reqs :
        /\ req[r].kind = "pay" /\ req[r].caller = 1 /\ req[r].arg = 1
        /\ hist[r].status = 200
        /\ req[q].kind = "pay" /\ req[q].caller = 1 /\ req[q].arg = 1
        /\ hist[q].status = 404
        /\ balance = [InitBalance EXCEPT ![1] = 1, ![2] = 3]
        /\ jobs[1].paid /\ jobs[1].paymentDate # NoDate

\* C10: a paid Job stays paid and its paymentDate is never written again
C10_PaidOnce ==
    [][\A j \in JobIds :
          jobs[j].paid =>
              /\ jobs'[j].paid
              /\ jobs'[j].paymentDate = jobs[j].paymentDate
              /\ \A r \in Reqs : "paid" \in hist'[r].applied /\ req'[r].arg = j
                                   => "paid" \in hist[r].applied]_vars

(* ---- claims about the GET routes, checked under SpecRead *)

\* a GET route has just answered `op`
Answered(op) == res' # res /\ res'.op = op

\* the caller is the Client or the Contractor of Contract id
IsParty(caller, id) == caller \in {Contract[id].ClientId, Contract[id].ContractorId}

\* C11: GetContract answers 200 with the contract exactly when the contract
\* exists and the caller is its Client or its Contractor; in every other case
\* it answers 404 with an empty body, the same for a contract that is not the
\* caller's as for an id that no contract has.
C11_GetContract ==
    [][Answered("contract") =>
        IF res'.id \in ContractIds /\ IsParty(res'.caller, res'.id)
        THEN res'.status = 200 /\ res'.body = <<res'.id, Contract[res'.id]>>
        ELSE res'.status = 404 /\ res'.body = <<>>]_vars

\* a caller was refused a contract that exists and is not theirs
C11_Witness ==
    /\ res.op = "contract"
    /\ res.id \in ContractIds
    /\ ~IsParty(res.caller, res.id)
    /\ res.status = 404

\* C12: GetUnpaidJobs answers with exactly the Jobs that are unpaid, whose
\* Contract is in_progress and has the caller as Client or Contractor; a Job
\* that has been paid is in no answer given after the payment.
C12_UnpaidJobs ==
    [][Answered("unpaid") =>
        /\ res'.status = 200
        /\ res'.body = {j \in JobIds :
                            /\ ~jobs'[j].paid
                            /\ Contract[JobRow[j].ContractId].status = "in_progress"
                            /\ IsParty(res'.caller, JobRow[j].ContractId)}
        /\ \A j \in JobIds : jobs'[j].paid => j \notin res'.body]_vars

\* an answer given after a payment: it has a Job of the caller, and neither
\* the paid Job of the caller nor the unpaid Job of the terminated Contract
C12_Witness ==
    /\ res.op = "unpaid"
    /\ res.body # {}
    /\ \E r \in Reqs : hist[r].status = 200
    /\ \E j \in JobIds : /\ jobs[j].paid
                          /\ Contract[JobRow[j].ContractId].status = "in_progress"
                          /\ IsParty(res.caller, JobRow[j].ContractId)
                          /\ j \notin res.body
    /\ ~jobs[4].paid
    /\ IsParty(res.caller, JobRow[4].ContractId)
    /\ 4 \notin res.body

\* the Jobs that are paid, with a paymentDate from start to end, in the store
\* a GET route has just read
Qualifying(start, end) ==
    {j \in JobIds : /\ jobs'[j].paid
                    /\ jobs'[j].paymentDate \in start..end}

\* C13: every total of BestProfession and of BestClients is the sum of the
\* prices of the paid Jobs of its group with a paymentDate from start to end,
\* both included, and every entry has at least one such Job.
C13_TotalsInWindow ==
    [][/\ Answered("profession") =>
            \A i \in DOMAIN res'.body :
                LET Q == {j \in Qualifying(res'.start, res'.end) :
                             ProfessionOf(j) = res'.body[i].profession}
                IN  Q # {} /\ res'.body[i].jobs_paid_sum = SumPrice(Q)
       /\ Answered("clients") =>
            \A i \in DOMAIN res'.body :
                LET Q == {j \in Qualifying(res'.start, res'.end) :
                             ClientOf(j) = res'.body[i].id}
                IN  Q # {} /\ res'.body[i].paid = SumPrice(Q)]_vars

\* BestClients answered with a client for a window of one date, while one
\* Job is paid outside the window and another Job of that client is unpaid
C13_Witness ==
    /\ res.op = "clients"
    /\ res.start = res.end
    /\ res.body # <<>>
    /\ \E j \in JobIds : jobs[j].paid /\ jobs[j].paymentDate # res.start
    /\ \E j \in JobIds : ~jobs[j].paid /\ ClientOf(j) = res.body[1].id

\* the clients with a paid Job dated from start to end, and what such Jobs paid
ClientsIn(start, end) == {ClientOf(j) : j \in Qualifying(start, end)}

TotalPaid(c, start, end) ==
    SumPrice({j \in Qualifying(start, end) : ClientOf(j) = c})

Min(a, b) == IF a < b THEN a ELSE b

Alphabetical == <<"Musician", "Programmer">>

NameBefore(f, g) ==
    \E i, k \in DOMAIN Alphabetical :
        i < k /\ Alphabetical[i] = f /\ Alphabetical[k] = g

\* C15: BestProfession answers with one entry for each profession of a
\* contractor with a paid Job in the window, carrying the sum of the prices of
\* these Jobs, in descending order of the sums, and two professions with the
\* same sum in ascending order of their names.
C15_BestProfessionOrder ==
    [][Answered("profession") =>
        LET Q    == Qualifying(res'.start, res'.end)
            body == res'.body
        IN  /\ {body[i].profession : i \in DOMAIN body} = {ProfessionOf(j) : j \in Q}
            /\ Len(body) = Cardinality({ProfessionOf(j) : j \in Q})
            /\ \A i \in DOMAIN body :
                  body[i].jobs_paid_sum =
                      SumPrice({j \in Q : ProfessionOf(j) = body[i].profession})
            /\ \A i, k \in DOMAIN body :
                  i < k =>
                    \/ body[i].jobs_paid_sum > body[k].jobs_paid_sum
                    \/ /\ body[i].jobs_paid_sum = body[k].jobs_paid_sum
                       /\ NameBefore(body[i].profession, body[k].profession)]_vars

(* ---- claims about the POST routes under concurrency *)

RECURSIVE SumOver(_, _)
SumOver(S, f) ==
    IF S = {} THEN 0
    ELSE LET x == CHOOSE y \in S : TRUE IN f[x] + SumOver(S \ {x}, f)

\* the Deposit requests whose balance write has been applied
AppliedDeposits == {r \in Reqs : "deposit" \in hist[r].applied}

\* no payment is between its two balance writes
NoHalfPayment ==
    \A r \in Reqs : "debit" \in hist[r].applied <=> "credit" \in hist[r].applied

\* C17: the balances of all Profiles add up to what they added up to at the
\* start plus the amounts of the Deposits whose balance write has been
\* applied; payments, however interleaved, leave the total as it is. Stated
\* for the states in which no payment has made only one of its two writes.
C17_TotalBalance ==
    NoHalfPayment =>
        SumOver(ProfileIds, balance)
            = SumOver(ProfileIds, InitBalance)
              + SumOver(AppliedDeposits, [r \in Reqs |-> req[r].deposit])

\* C18: a Deposit answered 200 does not lower the balance of its target: the
\* balance after its write is at least the balance before it, for every
\* amount of the request body, zero and negative amounts included.
C18_DepositNeverLowers ==
    [][\A r \in Reqs :
          Leaves(r, "depUpdate") /\ hist'[r].status = 200 =>
              balance'[req[r].arg] >= balance[req[r].arg]]_vars

\* C19: a Deposit to a userId that no Profile has is never answered 200, and
\* no step of it changes a balance, for every amount, those of at most 0
\* that pass the limit of a debt of 0 included.
C19_DepositToNoProfile ==
    [][\A r \in Reqs :
          (/\ req[r].kind = "deposit"
           /\ req[r].arg \notin ProfileIds
           /\ req'[r] # req[r]) =>
              balance' = balance /\ hist'[r].status # 200]_vars

\* a Deposit of at most 0 to a missing Profile passed the limit and was
\* answered 500 with no store error
C19_Witness ==
    \E r \in Reqs :
        /\ req[r].kind = "deposit"
        /\ req[r].arg \notin ProfileIds
        /\ req[r].deposit <= 0
        /\ req[r].pc = "done"
        /\ hist[r].status = 500
        /\ balance = InitBalance

\* the response of a Deposit of `amount` to userId, run alone on the store as
\* it is: a function of the store, the target and the amount
DepositStatus(userId, amount) ==
    IF 4 * amount > Debt(userId) THEN 400
    ELSE IF userId \notin ProfileIds THEN 500
    ELSE 200

\* C20: the response and the effect of a Deposit are fixed by the store, the
\* target userId and the amount, whoever the caller is: two callers get the
\* same response and leave the same store, and the only balance that can
\* change is the target's, never the caller's unless the caller is the target.
C20_DepositIgnoresCaller ==
    [][\A r \in Reqs :
          req[r].kind = "deposit" /\ req'[r] # req[r] =>
              /\ jobs' = jobs
              /\ \A p \in ProfileIds \ {req[r].arg} : balance'[p] = balance[p]
              /\ req'[r].pc = "done" =>
                    /\ hist'[r].status = DepositStatus(req[r].arg, req[r].deposit)
                    /\ req[r].arg \in ProfileIds =>
                          balance'[req[r].arg] = balance[req[r].arg]
                              + (IF hist'[r].status = 200 THEN req[r].deposit ELSE 0)]_vars

\* the same Deposit of 1 to the same target was made by the target and by
\* another Profile; both were answered 200 and only the target's balance rose
C20_Witness ==
    \E r, q \in Reqs :
        /\ req[r].kind = "deposit" /\ req[q].kind = "deposit"
        /\ req[r].arg = req[q].arg
        /\ req[r].deposit = 1 /\ req[q].deposit = 1
        /\ req[r].caller = req[r].arg
        /\ req[q].caller # req[q].arg
        /\ hist[r].status = 200 /\ hist[q].status = 200
        /\ balance[req[q].caller] = InitBalance[req[q].caller]
        /\ balance[req[q].arg] = InitBalance[req[q].arg] + 2

====
